---- MODULE Spec2Model ----
(***************************************************************************)
(* A model of scrape_players.py: the table discovery, header               *)
(* normalisation, table selection and row cleaning pipeline                *)
(* (extract_table and its helpers) and the per-letter loop, aggregation    *)
(* and export of main().                                                   *)
(*                                                                         *)
(* Text is modelled by TLA+ strings, treated as sequences of characters.   *)
(* A DataFrame is a record [columns, index, data]: the column labels, the  *)
(* row labels (pandas' index) and the rows, each a sequence of cells.  A   *)
(* boolean pandas Series is a function from row labels to BOOLEAN.         *)
(***************************************************************************)
EXTENDS Integers, Sequences, FiniteSets, TLC

(***************************************************************************)
(* Configuration (module level constants of the script).                   *)
(***************************************************************************)
COLUMNS == <<"Name", "Pos", "Team", "Age", "DOB", "POB", "Nationality",
             "Bats", "Throws", "Height", "Weight", "Salary">>

POS_SET == {"SP", "RP", "CL", "C", "1B", "2B", "3B", "SS", "LF", "CF", "RF", "DH"}

\* JUNK_PATTERNS, in list order, named by their position in the list.
JUNK_PATTERNS == <<1, 2, 3, 4, 5, 6, 7, 8>>

\* The header-row threshold of _normalize_headers (overlap >= 5).
HeaderOverlap == 5

Range(s) == {s[k] : k \in 1..Len(s)}

(***************************************************************************)
(* Text primitives: what str.strip, str.upper, re.I matching and Python's  *)
(* string comparison do on the characters the model uses.                  *)
(***************************************************************************)
Lowers == "abcdefghijklmnopqrstuvwxyz"
Uppers == "ABCDEFGHIJKLMNOPQRSTUVWXYZ"
Digits == "0123456789"
\* The characters of the model in code point order (Python compares str by
\* code point).
CodeOrder == "\t\n ,/0123456789<>ABCDEFGHIJKLMNOPQRSTUVWXYZ_abcdefghijklmnopqrstuvwxyz|"

Ch(s, i) == IF i \in 1..Len(s) THEN SubSeq(s, i, i) ELSE ""
PosIn(alphabet, c) ==
    IF \E i \in 1..Len(alphabet) : Ch(alphabet, i) = c
    THEN CHOOSE i \in 1..Len(alphabet) : Ch(alphabet, i) = c
    ELSE 0
IsSpace(c) == c \in {" ", "\t", "\n"}
IsWordCh(c) == PosIn(Lowers, c) > 0 \/ PosIn(Uppers, c) > 0
               \/ PosIn(Digits, c) > 0 \/ c = "_"
UpperCh(c) == IF PosIn(Lowers, c) > 0 THEN Ch(Uppers, PosIn(Lowers, c)) ELSE c
LowerCh(c) == IF PosIn(Uppers, c) > 0 THEN Ch(Lowers, PosIn(Uppers, c)) ELSE c

RECURSIVE UpperStr(_)
UpperStr(s) == IF s = "" THEN "" ELSE UpperCh(Head(s)) \o UpperStr(Tail(s))
RECURSIVE LowerStr(_)
LowerStr(s) == IF s = "" THEN "" ELSE LowerCh(Head(s)) \o LowerStr(Tail(s))

\* str.strip(): leading and trailing whitespace removed.
Min(S) == CHOOSE m \in S : \A n \in S : m <= n
Max(S) == CHOOSE m \in S : \A n \in S : m >= n
Between(s, keep) == IF keep = {} THEN "" ELSE SubSeq(s, Min(keep), Max(keep))
Strip(s) == Between(s, {i \in 1..Len(s) : ~IsSpace(Ch(s, i))})

StartsWith(s, pre) == Len(s) >= Len(pre) /\ SubSeq(s, 1, Len(pre)) = pre
\* The first position from i on that holds no whitespace (regex \s*).
SkipSpaces(s, i) == Min({j \in i..(Len(s) + 1) : ~IsSpace(Ch(s, j))})
\* str.contains(","): the text holds a comma.
HasComma(s) == \E i \in 1..Len(s) : Ch(s, i) = ","
\* Python's str order: s sorts strictly before t.
RECURSIVE StrLess(_, _)
StrLess(s, t) ==
    IF t = "" THEN FALSE
    ELSE IF s = "" THEN TRUE
    ELSE IF Head(s) = Head(t) THEN StrLess(Tail(s), Tail(t))
    ELSE PosIn(CodeOrder, Head(s)) < PosIn(CodeOrder, Head(t))

(***************************************************************************)
(* The junk patterns, each searched in the text with re.I.                 *)
(***************************************************************************)
\* ^<prefix>\b for a prefix ending in a word character, case-insensitive.
PrefixWordIn(t, pre) == StartsWith(t, pre) /\ ~IsWordCh(Ch(t, Len(pre) + 1))
PrefixWord(s, pre) == PrefixWordIn(LowerStr(s), pre)
\* Where \s*<c> ends when it matches at position i, 0 when it does not (or
\* when i is 0 already).
Lit(t, i, c) ==
    IF i > 0 /\ Ch(t, SkipSpaces(t, i)) = c THEN SkipSpaces(t, i) + 1 ELSE 0
\* \bA\s*\|\s*B\s*\|\s*C found anywhere in the text, case-insensitive.
NavAt(t, p) ==
    /\ Ch(t, p) = "a"
    /\ ~IsWordCh(Ch(t, p - 1))
    /\ Lit(t, Lit(t, Lit(t, Lit(t, p + 1, "|"), "b"), "|"), "c") > 0
NavFound(t) == \E p \in 1..Len(t) : NavAt(t, p)
NavRow(s) == NavFound(LowerStr(s))
JunkMatch(pat, s) ==
    CASE pat = 1 -> NavRow(s)
      [] pat = 2 -> StartsWith(LowerStr(s), "bnn index")
      [] pat = 3 -> PrefixWord(s, "the shield")
      [] pat = 4 -> PrefixWord(s, "the shield")
      [] pat = 5 -> PrefixWord(s, "players list")
      [] pat = 6 -> PrefixWord(s, "league stats page")
      [] pat = 7 -> PrefixWord(s, "history")
      [] pat = 8 -> LowerStr(Strip(s)) = "nan"

(***************************************************************************)
(* Cells.  A cell is text, the float NaN that read_html leaves for an      *)
(* empty cell, pandas' NA (the fill of an absent column) or a number (an   *)
(* Age after pd.to_numeric).                                               *)
(***************************************************************************)
Str(s) == <<"str", s>>
NaN == <<"nan", "">>
NA == <<"NA", "">>
Num(d) == <<"num", d>>
IsMissing(c) == c[1] \in {"nan", "NA"}
\* Series.astype(str) / str(x) of one cell.
AsStr(c) ==
    CASE c[1] = "str" -> c[2]
      [] c[1] = "nan" -> "nan"
      [] c[1] = "NA" -> "<NA>"
      [] c[1] = "num" -> c[2]
\* pd.to_numeric(errors="coerce") of one cell: a run of digits (blanks
\* around it allowed) is its number, anything else is NaN.
RECURSIVE NoZeros(_)
NoZeros(d) == IF Len(d) > 1 /\ Head(d) = "0" THEN NoZeros(Tail(d)) ELSE d
IsDigits(t) == t # "" /\ \A i \in 1..Len(t) : PosIn(Digits, Ch(t, i)) > 0
ParseNumber(t) == IF IsDigits(t) THEN Num(NoZeros(t)) ELSE NaN
ToNumeric(c) ==
    IF c[1] = "num" THEN c
    ELSE IF c[1] = "str" THEN ParseNumber(Strip(c[2]))
    ELSE NaN

(***************************************************************************)
(* DataFrames and boolean Series.  A boolean Series is [dom, on]: its row  *)
(* labels and those of them that hold True.                                *)
(***************************************************************************)
DataFrame(cols, idx, rows) == [columns |-> cols, index |-> idx, data |-> rows]
HasCol(df, c) == c \in Range(df.columns)
ColPos(df, c) == CHOOSE k \in 1..Len(df.columns) : df.columns[k] = c
RowPos(df, lab) == CHOOSE k \in 1..Len(df.index) : df.index[k] = lab
Labels(df) == Range(df.index)
\* df[c]: the cell of column c in the row labelled lab.
At(df, lab, c) == df.data[RowPos(df, lab)][ColPos(df, c)]
\* The positions 1..n, in order, that satisfy Keep.
SelectPos(n, Keep(_)) == SelectSeq([k \in 1..n |-> k], Keep)
\* The rows of df at the given positions, labels kept.
TakeRows(df, ps) ==
    DataFrame(df.columns,
              [k \in 1..Len(ps) |-> df.index[ps[k]]],
              [k \in 1..Len(ps) |-> df.data[ps[k]]])
\* df[cols]: the named columns, in the order named.
SelectCols(df, cols) ==
    DataFrame(cols, df.index,
              [r \in 1..Len(df.data) |->
                  [k \in 1..Len(cols) |-> df.data[r][ColPos(df, cols[k])]]])

Series(dom, on) == [dom |-> dom, on |-> on]
\* left | right and left & right of two boolean Series: the operands are
\* aligned on the union of their labels; a label missing on the right is
\* filled with False before the operation, one missing on the left yields
\* NaN, which the result's conversion to bool turns into False.
SeriesOr(left, right) ==
    Series(left.dom \cup right.dom, {i \in left.dom : i \in left.on \/ i \in right.on})
SeriesAnd(left, right) ==
    Series(left.dom \cup right.dom, {i \in left.dom : i \in left.on /\ i \in right.on})
SeriesNot(s) == Series(s.dom, s.dom \ s.on)
\* mask |= other: NDFrame._inplace_method computes mask | other and reindexes
\* the result like mask, so mask keeps its own labels.
InplaceOr(mask, other) == Series(mask.dom, SeriesOr(mask, other).on \cap mask.dom)
\* df[key] for a boolean Series key whose labels cover the frame's: the key
\* is reindexed to the frame's index.
BoolIndex(df, key) ==
    TakeRows(df, SelectPos(Len(df.index), LAMBDA k : df.index[k] \in key.on))
\* A Series over the frame's own labels computed cell by cell from column c.
ColTest(df, c, Test(_)) == Series(Labels(df), {i \in Labels(df) : Test(At(df, i, c))})
\* A boolean Series computed text by text from a Series of texts.
TextTest(texts, Test(_)) == Series(DOMAIN texts, {i \in DOMAIN texts : Test(texts[i])})

(***************************************************************************)
(* _normalize_headers.  The result is [err, df]: err is "" on success and  *)
(* names the exception otherwise (df.iloc[0] of a frame without rows       *)
(* raises IndexError).                                                     *)
(***************************************************************************)
Ok(df) == [err |-> "", df |-> df]
EmptyDf == DataFrame(<<>>, <<>>, <<>>)
Raise(e) == [err |-> e, df |-> EmptyDf]

\* row0 = [str(x).strip() for x in df.iloc[0].tolist()]
Row0(df) == [k \in 1..Len(df.data[1]) |-> Strip(AsStr(df.data[1][k]))]
Overlap(row0) == Cardinality({k \in 1..Len(row0) : row0[k] \in Range(COLUMNS)})
\* A first row that looks like a header becomes the column labels.
Promote(df, row0) ==
    IF Overlap(row0) >= HeaderOverlap
    THEN DataFrame(row0, Tail(df.index), Tail(df.data))
    ELSE df
TrimColumns(df) ==
    DataFrame([k \in 1..Len(df.columns) |-> Strip(df.columns[k])], df.index, df.data)
\* ren, in the order the loop visits it.
ren == << <<"Date of Birth", "DOB">>, <<"Place of Birth", "POB">>,
          <<"Nationality", "Nationality">>, <<"Throws/Bats", "Throws">>,
          <<"Bats/Throws", "Bats">> >>
\* df.rename(columns={k: v}) when k is a column and v is not.
RenameIf(cols, k, v) ==
    IF k \in Range(cols) /\ v \notin Range(cols)
    THEN [i \in 1..Len(cols) |-> IF cols[i] = k THEN v ELSE cols[i]]
    ELSE cols
RECURSIVE RenameFrom(_, _)
RenameFrom(cols, n) ==
    IF n > Len(ren) THEN cols
    ELSE RenameFrom(RenameIf(cols, ren[n][1], ren[n][2]), n + 1)
RenameColumns(df) == DataFrame(RenameFrom(df.columns, 1), df.index, df.data)

_normalize_headers(df) ==
    IF Len(df.data) = 0 THEN Raise("IndexError")
    ELSE Ok(RenameColumns(TrimColumns(Promote(df, Row0(df)))))

(***************************************************************************)
(* _choose_best_table: max(tables, key=score); Python's max returns the    *)
(* first of the maximal elements.                                          *)
(***************************************************************************)
score(df) ==
    Cardinality({k \in 1..Len(df.columns) : Strip(df.columns[k]) \in Range(COLUMNS)})

\* Variant: a later item of equal key replaces the one held.
BeatsOrTies(df, held) == score(df) >= score(held)
\* max keeps the item it holds unless a later one has a strictly greater key.
Beats(df, held) == score(df) > score(held)
RECURSIVE MaxScan(_, _, _)
MaxScan(tables, held, k) ==
    IF k > Len(tables) THEN held
    ELSE MaxScan(tables, IF Beats(tables[k], tables[held]) THEN k ELSE held, k + 1)
BestIndex(tables) == MaxScan(tables, 1, 2)

_choose_best_table(tables) == tables[BestIndex(tables)]

(***************************************************************************)
(* _drop_junk_rows.                                                        *)
(***************************************************************************)
\* mask = pd.Series([False]*len(df)): labelled 0 .. len(df)-1, whatever the
\* frame's own labels are.
FreshMask(df) == Series(0..(Len(df.index) - 1), {})

name_series(df) == [i \in Labels(df) |-> Strip(AsStr(At(df, i, "Name")))]

\* for pat in JUNK_PATTERNS: mask |= name_series.str.contains(pat, flags=re.I)
RECURSIVE JunkMask(_, _, _)
JunkMask(mask, names, k) ==
    IF k > Len(JUNK_PATTERNS) THEN mask
    ELSE JunkMask(InplaceOr(mask, TextTest(names, LAMBDA s : JunkMatch(JUNK_PATTERNS[k], s))),
                  names, k + 1)
\* rows that repeat the column headers
\* Variant: rows that echo the Name header are not flagged.
NameEchoOff(mask, names) == mask
NameEcho(mask, names) == InplaceOr(mask, TextTest(names, LAMBDA s : LowerStr(s) = "name"))
PosEcho(df, mask) ==
    IF HasCol(df, "Pos")
    THEN InplaceOr(mask, ColTest(df, "Pos", LAMBDA c : LowerStr(AsStr(c)) \in {"pos", "position"}))
    ELSE mask
TeamEcho(df, mask) ==
    IF HasCol(df, "Team")
    THEN InplaceOr(mask, ColTest(df, "Team", LAMBDA c : LowerStr(AsStr(c)) = "team"))
    ELSE mask
\* The mask of rows to remove: junk patterns, then repeated column headers.
DropMask(df) ==
    TeamEcho(df, PosEcho(df, NameEcho(JunkMask(FreshMask(df), name_series(df), 1),
                                      name_series(df))))

\* keep: a comma in the name, or (with a Pos column) a valid position code.
comma_mask(df) == TextTest(name_series(df), HasComma)
pos_mask(df) == ColTest(df, "Pos", LAMBDA c : UpperStr(AsStr(c)) \in POS_SET)
\* Variant: every row is kept.
KeepEvery(df) == Series(Labels(df), Labels(df))
KeepMask(df) ==
    IF HasCol(df, "Pos") THEN SeriesOr(comma_mask(df), pos_mask(df)) ELSE comma_mask(df)

\* cleaned["Age"] = pd.to_numeric(cleaned["Age"], errors="coerce")
CoerceAge(df) ==
    IF HasCol(df, "Age")
    THEN DataFrame(df.columns, df.index,
             [r \in 1..Len(df.data) |->
                 [k \in 1..Len(df.columns) |->
                     IF df.columns[k] = "Age" THEN ToNumeric(df.data[r][k])
                     ELSE df.data[r][k]]])
    ELSE df

\* cleaned = cleaned[cleaned[col].astype(str).str.strip().ne("")]
DropBlank(df, col) ==
    IF HasCol(df, col)
    THEN BoolIndex(df, ColTest(df, col, LAMBDA c : Strip(AsStr(c)) # ""))
    ELSE df

\* drop_duplicates(subset, keep="first"); missing values equal one another.
RowKey(df, subset, r) == [k \in 1..Len(subset) |-> df.data[r][ColPos(df, subset[k])]]
\* Variant: duplicates stay.
KeepDuplicates(df, subset) == df
DropDuplicates(df, subset) ==
    TakeRows(df, SelectPos(Len(df.data),
                    LAMBDA r : \A q \in 1..(r - 1) : RowKey(df, subset, q) # RowKey(df, subset, r)))
DeDupOn(df, subset) == IF Len(subset) > 0 THEN DropDuplicates(df, subset) ELSE df
DeDup(df) == DeDupOn(df, SelectSeq(<<"Name", "Team">>, LAMBDA c : HasCol(df, c)))

_drop_junk_rows(df) ==
    IF ~HasCol(df, "Name") THEN df
    ELSE DeDup(DropBlank(DropBlank(
             CoerceAge(BoolIndex(df, SeriesAnd(SeriesNot(DropMask(df)), KeepMask(df)))),
             "Name"), "Team"))

(***************************************************************************)
(* extract_table.  A page is what the two parsers make of its bytes:       *)
(*   tables    the frames pd.read_html returns for the whole page; none    *)
(*             stands for its ValueError("No tables found");               *)
(*   elements  the <table> elements BeautifulSoup finds, each with the     *)
(*             texts of its <th> cells and the frame pd.read_html makes    *)
(*             of the element alone (none when that parse raises).         *)
(***************************************************************************)
Page(tables, elements) == [tables |-> tables, elements |-> elements]
Element(headers, parsed) == [headers |-> headers, parsed |-> parsed]

\* Step 2: the structural fallback over soup.find_all("table").
\* Variant: one of the two header texts is enough.
AcceptsEither(el) ==
    Len(el.headers) > 0 /\ ("Name" \in Range(el.headers) \/ "Team" \in Range(el.headers))
Accepts(el) ==
    Len(el.headers) > 0 /\ "Name" \in Range(el.headers) /\ "Team" \in Range(el.headers)
RECURSIVE Candidates(_)
Candidates(elements) ==
    IF elements = <<>> THEN <<>>
    ELSE (IF Accepts(Head(elements)) THEN Head(elements).parsed ELSE <<>>)
         \o Candidates(Tail(elements))

UsesFallback(page) == Len(page.tables) = 0
Discover(page) == IF UsesFallback(page) THEN Candidates(page.elements) ELSE page.tables

\* The loop over tables: the first frame whose normalisation raises ends it.
Collect(res) ==
    IF \A k \in 1..Len(res) : res[k].err = ""
    THEN [err |-> "", dfs |-> [k \in 1..Len(res) |-> res[k].df]]
    ELSE [err |-> res[Min({k \in 1..Len(res) : res[k].err # ""})].err, dfs |-> <<>>]
NormalizeAll(tables) == Collect([k \in 1..Len(tables) |-> _normalize_headers(tables[k])])

\* keep = [c for c in COLUMNS if c in best.columns]; best[keep] when not empty.
ReduceTo(best, keep) == IF Len(keep) > 0 THEN SelectCols(best, keep) ELSE best
Reduce(best) == ReduceTo(best, SelectSeq(COLUMNS, LAMBDA c : HasCol(best, c)))

\* Absent canonical columns are added holding pd.NA, then best[COLUMNS].
\* Variant: absent columns are not added.
FillNothing(df) == df
FillColumns(df) ==
    DataFrame(COLUMNS, df.index,
              [r \in 1..Len(df.data) |->
                  [k \in 1..Len(COLUMNS) |->
                      IF HasCol(df, COLUMNS[k]) THEN df.data[r][ColPos(df, COLUMNS[k])]
                      ELSE NA]])

NoTables == "RuntimeError: No tables found on page."

\* What each stage of extract_table left, for a page whose tables normalise.
Cleaned(page, tables, normed, reduced, cleaned) ==
    [fallback |-> UsesFallback(page), tables |-> tables, normed |-> normed,
     chosen |-> BestIndex(normed), reduced |-> reduced, cleaned |-> cleaned,
     err |-> "", df |-> FillColumns(cleaned)]
Reduced(page, tables, normed, reduced) ==
    Cleaned(page, tables, normed, reduced, _drop_junk_rows(reduced))
\* ... and for a page on which extract_table raises.
Failed(page, tables, e) ==
    [fallback |-> UsesFallback(page), tables |-> tables, normed |-> <<>>,
     chosen |-> 0, reduced |-> EmptyDf, cleaned |-> EmptyDf,
     err |-> e, df |-> EmptyDf]
Normalized(page, tables, res) ==
    IF res.err # "" THEN Failed(page, tables, res.err)
    ELSE Reduced(page, tables, res.dfs, Reduce(_choose_best_table(res.dfs)))
Discovered(page, tables) ==
    IF Len(tables) = 0 THEN Failed(page, tables, NoTables)
    ELSE Normalized(page, tables, NormalizeAll(tables))
ExtractStages(page) == Discovered(page, Discover(page))

extract_table(page) == [err |-> ExtractStages(page).err, df |-> ExtractStages(page).df]

(***************************************************************************)
(* Byte source and fetch_letter.  A source is what a letter's bytes are:   *)
(* the local file (none when the path does not exist) and what the remote  *)
(* request returns (none when it raises).                                  *)
(***************************************************************************)
Source(local, remote) == [local |-> local, remote |-> remote]
FetchError == "HTTPError"

fetch_letter(src) ==
    IF Len(src.local) > 0 THEN extract_table(src.local[1])
    ELSE IF Len(src.remote) > 0 THEN extract_table(src.remote[1])
    ELSE Raise(FetchError)

(***************************************************************************)
(* main(): tagging, concatenation, the stable sort.                        *)
(***************************************************************************)
SortKeys == <<"Letter", "Name", "Team">>

\* df["Letter"] = L.lower()
TagLetter(df, L) ==
    DataFrame(Append(df.columns, "Letter"), df.index,
              [r \in 1..Len(df.data) |-> Append(df.data[r], Str(LowerStr(L)))])

\* pd.concat(frames, ignore_index=True): the union of the columns in order of
\* first appearance, the rows of the frames in order, a fresh RangeIndex.
RECURSIVE AllColumns(_, _)
AllColumns(frames, acc) ==
    IF frames = <<>> THEN acc
    ELSE AllColumns(Tail(frames),
                    acc \o SelectSeq(Head(frames).columns, LAMBDA c : c \notin Range(acc)))
Widen(df, cols) ==
    [r \in 1..Len(df.data) |->
        [k \in 1..Len(cols) |->
            IF HasCol(df, cols[k]) THEN df.data[r][ColPos(df, cols[k])] ELSE NaN]]
RECURSIVE AllRows(_, _)
AllRows(frames, cols) ==
    IF frames = <<>> THEN <<>>
    ELSE Widen(Head(frames), cols) \o AllRows(Tail(frames), cols)
RangeIndex(n) == [k \in 1..n |-> k - 1]
Framed(cols, rows) == DataFrame(cols, RangeIndex(Len(rows)), rows)
Concat(frames) == Framed(AllColumns(frames, <<>>), AllRows(frames, AllColumns(frames, <<>>)))

\* The order of sort_values on one key column, na_position="last".
CellLess(c, d) ==
    IF IsMissing(c) THEN FALSE
    ELSE IF IsMissing(d) THEN TRUE
    ELSE StrLess(AsStr(c), AsStr(d))
CellSame(c, d) == IF IsMissing(c) THEN IsMissing(d) ELSE c = d
RECURSIVE KeyLess(_, _)
KeyLess(a, b) ==
    IF a = <<>> THEN FALSE
    ELSE IF CellSame(Head(a), Head(b)) THEN KeyLess(Tail(a), Tail(b))
    ELSE CellLess(Head(a), Head(b))
KeyOf(df, row) == [k \in 1..Len(SortKeys) |-> row[ColPos(df, SortKeys[k])]]

\* A stable sort: each row goes behind the rows that do not sort after it.
\* Variant: a row also goes before the rows it ties with.
GoesBeforeOrTies(df, row, other) == ~KeyLess(KeyOf(df, other), KeyOf(df, row))
GoesBefore(df, row, other) == KeyLess(KeyOf(df, row), KeyOf(df, other))
RECURSIVE InsertRow(_, _, _)
InsertRow(df, sorted, row) ==
    IF sorted = <<>> THEN <<row>>
    ELSE IF GoesBefore(df, row, Head(sorted)) THEN <<row>> \o sorted
    ELSE <<Head(sorted)>> \o InsertRow(df, Tail(sorted), row)
RECURSIVE SortRows(_, _, _)
SortRows(df, rows, sorted) ==
    IF rows = <<>> THEN sorted
    ELSE SortRows(df, Tail(rows), InsertRow(df, sorted, Head(rows)))
\* out.sort_values(SortKeys, kind="stable", na_position="last").reset_index(drop=True)
SortValues(df) == Framed(df.columns, SortRows(df, df.data, <<>>))

(***************************************************************************)
(* The pages the model draws.  Every bound is a definition.                *)
(***************************************************************************)
MaxRows == 2        \* data rows of a table
MaxTables == 2      \* tables, or <table> elements, of a page with several
MaxLetters == 2     \* configured letters of a run

SeqsUpTo(S, n) == UNION {[1..k -> S] : k \in 0..n}

\* Rows of a [Name, Pos, Team] table: player rows (with and without a comma,
\* a valid or an unknown position, a blank or missing name, a blank or
\* missing team) and page chrome (header echoes, a navigation bar).
PlayerRows ==
    {<<Str("Smith, John"), Str("ss"), Str("Tigers")>>,
     <<Str("Smith, John"), Str("xx"), Str("Tigers")>>,
     <<Str("Cher"), Str("ss"), Str("Tigers")>>,
     <<Str("Cher"), Str("xx"), Str("Tigers")>>,
     <<Str(" "), Str("ss"), Str("Tigers")>>,
     <<NaN, Str("ss"), Str("Tigers")>>,
     <<Str("Smith, John"), Str("ss"), Str(" ")>>,
     <<Str("Smith, John"), Str("ss"), NaN>>}
ChromeRows ==
    {<<Str("Name"), Str("Pos"), Str("Team")>>,
     <<Str(" name "), Str("ss"), Str("Tigers")>>,
     <<Str("A | B | C"), Str("ss"), Str("Tigers")>>,
     <<Str("Smith, John"), Str("Position"), Str("Tigers")>>,
     <<Str("Smith, John"), Str("ss"), Str("TEAM")>>}
Rows3 == PlayerRows \cup ChromeRows

\* The layouts: column labels as read_html gives them, the rows that come
\* first in every table of the layout and the rows a table may hold.
Layout(cols, pre, rows) == [columns |-> cols, pre |-> pre, rows |-> rows]
NamePosTeam == Layout(<<"Name", "Pos", "Team">>, <<>>, Rows3)
NameTeam == Layout(<<"Name", "Team">>, <<>>, {<<r[1], r[3]>> : r \in Rows3})
PosTeam == Layout(<<"Pos", "Team">>, <<>>, {<<r[2], r[3]>> : r \in Rows3})
\* labels to trim, a header synonym and an Age to coerce
WithAge ==
    Layout(<<" Name ", "Team", "Age", "Date of Birth">>, <<>>,
           {<<n, Str("Tigers"), a, Str("1990")>> :
                n \in {Str("Smith, John"), Str("Lee, Min")},
                a \in {Str("27"), Str("n/a")}})
\* no header was detected: the header is the first row of the data
Headerless ==
    Layout(<<"0", "1", "2", "3", "4">>,
           << <<Str("Name"), Str("Pos"), Str("Team "), Str("Age"), Str("POB")>> >>,
           {<<n, Str("ss"), Str("Tigers"), Str("27"), NaN>> :
                n \in {Str("Smith, John"), Str("Lee, Min"), Str("History"), Str("Cher")}})
\* a table of something else
Other == Layout(<<"Notes">>, <<>>, {<<Str("BNN Index")>>})
Layouts == {NamePosTeam, NameTeam, PosTeam, WithAge, Headerless, Other}

TableOf(layout, rows) ==
    DataFrame(layout.columns, RangeIndex(Len(layout.pre) + Len(rows)), layout.pre \o rows)
TablesOf(layout, n) == {TableOf(layout, rows) : rows \in SeqsUpTo(layout.rows, n)}
RawTables == UNION {TablesOf(l, MaxRows) : l \in Layouts}
\* One table per layout, for pages that hold several.
SampleTables == {TableOf(l, <<CHOOSE r \in l.rows : TRUE>>) : l \in Layouts}
\* <table> elements: the texts of their <th> cells and what read_html makes
\* of their markup.
Elements ==
    {Element(h, t) :
        h \in {<<>>, <<"Name">>, <<"Team", "Pos", "Name">>},
        t \in {<<>>} \cup {<<TableOf(l, <<CHOOSE r \in l.rows : TRUE>>)>> :
                              l \in {NamePosTeam, PosTeam}}}

Pages ==
    {Page(<<t>>, <<>>) : t \in RawTables}
    \cup {Page(ts, <<>>) : ts \in SeqsUpTo(SampleTables, MaxTables)}
    \cup {Page(<<>>, es) : es \in SeqsUpTo(Elements, MaxTables)}
    \cup {Page(<<t>>, <<e>>) : t \in SampleTables, e \in Elements}

\* The letters a run may be configured with, and the pages a letter may have.
LetterKeys == {"a", "B"}
LetterTables ==
    {TableOf(NamePosTeam, << <<Str("Smith, John"), Str("ss"), Str("Tigers")>> >>),
     TableOf(NamePosTeam, << <<Str("Smith, John"), Str("xx"), Str("Tigers")>> >>),
     TableOf(NamePosTeam, << <<Str("Smith, John"), Str("ss"), NaN>>,
                             <<Str("Lee, Min"), Str("ss"), Str("Tigers")>> >>),
     TableOf(PosTeam, << <<Str("ss"), Str("Tigers")>> >>)}
LetterPages == {Page(<<t>>, <<>>) : t \in LetterTables} \cup {Page(<<>>, <<>>)}
Sources ==
    {Source(<<p>>, <<>>) : p \in LetterPages}
    \cup {Source(<<>>, <<p>>) : p \in LetterPages}
    \cup {Source(<<>>, <<>>)}

(***************************************************************************)
(* State.                                                                  *)
(***************************************************************************)
VARIABLES
    page,      \* the page under extraction
    phase,     \* "input", "extracted", "recleaned" ("run" during a whole run)
    ex,        \* what each stage of extract_table left (ExtractStages)
    again,     \* _drop_junk_rows run on its own output: [bare, filled]
    letters,   \* LETTERS
    pc,        \* main: "loop", "done", "raised" ("idle" outside a run)
    li,        \* main: the position in LETTERS of the letter to process next
    attempts,  \* the letters fetch_letter was called for, in order
    frames,    \* main: frames
    stderr,    \* what was printed to sys.stderr: [letter, error]
    out,       \* main: out, once built
    csv,       \* players.csv: the frame written, none before
    xlsx       \* players.xlsx: the frame written, none before

exvars == <<page, phase, ex, again>>
runvars == <<letters, pc, li, attempts, frames, stderr, out, csv, xlsx>>
vars == <<page, phase, ex, again, letters, pc, li, attempts, frames, stderr, out, csv, xlsx>>

NoStages == ExtractStages(Page(<<>>, <<>>))
NoAgain == [bare |-> EmptyDf, filled |-> EmptyDf]

NoRun ==
    /\ letters = <<>>
    /\ pc = "idle"
    /\ li = 1
    /\ attempts = <<>>
    /\ frames = <<>>
    /\ stderr = <<>>
    /\ out = EmptyDf
    /\ csv = <<>>
    /\ xlsx = <<>>

InitExtract ==
    /\ page \in Pages
    /\ phase = "input"
    /\ ex = NoStages
    /\ again = NoAgain
    /\ NoRun

\* extract_table(html_bytes) on the page.
ExtractTable ==
    /\ phase = "input"
    /\ ex' = ExtractStages(page)
    /\ phase' = "extracted"
    /\ UNCHANGED <<page, again>>
    /\ UNCHANGED runvars

\* The row cleaner applied once more, to what it emitted.
CleanAgain ==
    /\ phase = "extracted"
    /\ ex.err = ""
    /\ again' = [bare |-> _drop_junk_rows(ex.cleaned), filled |-> _drop_junk_rows(ex.df)]
    /\ phase' = "recleaned"
    /\ UNCHANGED <<page, ex>>
    /\ UNCHANGED runvars

NextExtract == ExtractTable \/ CleanAgain
SpecExtract == InitExtract /\ [][NextExtract]_vars

(***************************************************************************)
(* A run of main().                                                        *)
(***************************************************************************)
Init ==
    /\ page = Page(<<>>, <<>>)
    /\ phase = "run"
    /\ ex = NoStages
    /\ again = NoAgain
    /\ letters \in SeqsUpTo(LetterKeys, MaxLetters)
    /\ pc = "loop"
    /\ li = 1
    /\ attempts = <<>>
    /\ frames = <<>>
    /\ stderr = <<>>
    /\ out = EmptyDf
    /\ csv = <<>>
    /\ xlsx = <<>>

\* Variant: a letter that fails is reported and skipped.
ProcessedSkipping(L, res) ==
    /\ attempts' = Append(attempts, L)
    /\ li' = li + 1
    /\ pc' = pc
    /\ IF res.err = ""
       THEN frames' = Append(frames, TagLetter(res.df, L)) /\ stderr' = stderr
       ELSE stderr' = Append(stderr, [letter |-> L, error |-> res.err]) /\ frames' = frames
\* What one pass of the loop body does with what fetch_letter returned.
Processed(L, res) ==
    /\ attempts' = Append(attempts, L)
    /\ IF res.err = ""
       THEN /\ frames' = Append(frames, TagLetter(res.df, L))
            /\ li' = li + 1
            /\ UNCHANGED <<pc, stderr>>
       ELSE \* print(f"[{L}] ERROR: {e}", file=sys.stderr); raise
            /\ stderr' = Append(stderr, [letter |-> L, error |-> res.err])
            /\ pc' = "raised"
            /\ UNCHANGED <<frames, li>>

\* One pass of "for L in LETTERS".
ProcessLetter ==
    /\ pc = "loop"
    /\ li <= Len(letters)
    /\ \E src \in Sources : Processed(letters[li], fetch_letter(src))
    /\ UNCHANGED <<letters, out, csv, xlsx>>
    /\ UNCHANGED exvars

\* out.to_csv, then out.to_excel, whose failure is only reported.
Written(sorted, excel_ok) ==
    /\ out' = sorted
    /\ csv' = <<sorted>>
    /\ xlsx' = IF excel_ok THEN <<sorted>> ELSE <<>>
    /\ stderr' = IF excel_ok THEN stderr
                 ELSE Append(stderr, [letter |-> "", error |-> "Excel write skipped"])
    /\ pc' = "done"

\* After the loop: concat, sort, write.  pd.concat of no frames raises.
Finish ==
    /\ pc = "loop"
    /\ li > Len(letters)
    /\ IF Len(frames) = 0 \/ \E k \in 1..Len(SortKeys) : ~HasCol(Concat(frames), SortKeys[k])
       THEN pc' = "raised" /\ UNCHANGED <<out, csv, xlsx, stderr>>
       ELSE \E excel_ok \in BOOLEAN : Written(SortValues(Concat(frames)), excel_ok)
    /\ UNCHANGED <<letters, li, attempts, frames>>
    /\ UNCHANGED exvars

Next == ProcessLetter \/ Finish
Spec == Init /\ [][Next]_vars

(***************************************************************************)
(* Properties.                                                             *)
(***************************************************************************)
Extracted == phase \in {"extracted", "recleaned"} /\ ex.err = ""
Rows(df) == 1..Len(df.data)
\* The cell of column c in the row at position r, in a frame that has all
\* the canonical columns.
Field(df, r, c) == df.data[r][ColPos(df, c)]
\* The text of a cell; a missing value has none.
Text(c) == IF IsMissing(c) THEN "" ELSE AsStr(c)
Present(c) == ~IsMissing(c) /\ Strip(AsStr(c)) # ""
KeepCondition(df, r) ==
    \/ HasComma(Text(Field(df, r, "Name")))
    \/ UpperStr(Text(Field(df, r, "Pos"))) \in POS_SET
SamePair(df, r, q) ==
    /\ Field(df, r, "Name") = Field(df, q, "Name")
    /\ Field(df, r, "Team") = Field(df, q, "Team")
\* The row at position r of a frame with a Name column passes every row
\* filter of the cleaner, taken one row at a time.
PassesFilters(df, r) ==
    LET name == Strip(AsStr(Field(df, r, "Name")))
    IN /\ \A k \in 1..Len(JUNK_PATTERNS) : ~JunkMatch(JUNK_PATTERNS[k], name)
       /\ LowerStr(name) # "name"
       /\ HasCol(df, "Pos") => LowerStr(AsStr(Field(df, r, "Pos"))) \notin {"pos", "position"}
       /\ HasCol(df, "Team") => LowerStr(AsStr(Field(df, r, "Team"))) # "team"
       /\ \/ HasComma(name)
          \/ HasCol(df, "Pos") /\ UpperStr(AsStr(Field(df, r, "Pos"))) \in POS_SET
       /\ name # ""
       /\ HasCol(df, "Team") => Strip(AsStr(Field(df, r, "Team"))) # ""

\* C1 (as amended): when a run completes, the aggregate dataset exposes the
\* canonical columns, in canonical order, followed by the Letter column that
\* main() adds; every row has a cell for each of them and no other column is
\* present.
C1_CanonicalThenLetter ==
    pc = "done" =>
        /\ out.columns = COLUMNS \o <<"Letter">>
        /\ \A r \in Rows(out) : Len(out.data[r]) = Len(COLUMNS) + 1
        /\ csv = <<out>>
\* C1 (as claimed): the aggregate dataset exposes exactly the canonical
\* columns, no column outside the canonical set.
C1_ExactlyCanonical == pc = "done" => out.columns = COLUMNS
\* A completed run over a table with a Name column and one without.
C1_Witness ==
    /\ pc = "done"
    /\ \E r, q \in Rows(out) : out.data[r][1] = NA /\ out.data[q][1] # NA

C3_NoHeaderEcho ==
    Extracted => \A r \in Rows(ex.df) : LowerStr(Strip(Text(Field(ex.df, r, "Name")))) # "name"
\* A [Name, Pos, Team] table whose first data row repeats the header, with a
\* player row after it that is emitted.
C3_Witness ==
    /\ Extracted
    /\ ex.reduced.columns = <<"Name", "Pos", "Team">>
    /\ Len(ex.reduced.data) = 2
    /\ ex.reduced.data[1] = <<Str("Name"), Str("Pos"), Str("Team")>>
    /\ Len(ex.df.data) = 1

C5_Idempotent ==
    phase = "recleaned" => again.bare = ex.cleaned /\ again.filled = ex.df

\* C6: the chosen candidate's score is at least every candidate's score, and
\* it is the first candidate of that score; it is the table the rest of
\* extract_table works on.
CanonicalCount(df) == Cardinality({k \in 1..Len(df.columns) : df.columns[k] \in Range(COLUMNS)})
C6_FirstBest ==
    Extracted =>
        /\ ex.chosen \in 1..Len(ex.normed)
        /\ \A j \in 1..Len(ex.normed) :
              CanonicalCount(ex.normed[j]) <= CanonicalCount(ex.normed[ex.chosen])
        /\ \A j \in 1..(ex.chosen - 1) :
              CanonicalCount(ex.normed[j]) < CanonicalCount(ex.normed[ex.chosen])
        /\ ex.reduced = Reduce(ex.normed[ex.chosen])
\* Two different candidates tie for the top score.
C6_Witness ==
    /\ Extracted
    /\ Len(ex.normed) = 2
    /\ ex.normed[1] # ex.normed[2]
    /\ CanonicalCount(ex.normed[1]) = CanonicalCount(ex.normed[2])
    /\ CanonicalCount(ex.normed[1]) > 0

\* C7: every emitted row has a Name and a Team that are present and not
\* empty after trimming.
C7_NameAndTeamPresent ==
    Extracted =>
        \A r \in Rows(ex.df) :
            Present(Field(ex.df, r, "Name")) /\ Present(Field(ex.df, r, "Team"))

\* C8: the aggregate dataset is the stable sort of the concatenation of the
\* letters' tables: it is ordered by (Letter, Name, Team), missing values
\* last, and for every sort key the rows with that key are the rows of the
\* concatenation with that key, in the order they have there (so no row is
\* dropped, merged or duplicated).
FieldBefore(c, d) == ~IsMissing(c) /\ (IsMissing(d) \/ StrLess(Text(c), Text(d)))
FieldSame(c, d) == (IsMissing(c) /\ IsMissing(d)) \/ c = d
SameSortKey(df, a, b) ==
    \A k \in 1..Len(SortKeys) : FieldSame(a[ColPos(df, SortKeys[k])], b[ColPos(df, SortKeys[k])])
RowBefore(df, a, b) ==
    \E k \in 1..Len(SortKeys) :
        /\ FieldBefore(a[ColPos(df, SortKeys[k])], b[ColPos(df, SortKeys[k])])
        /\ \A j \in 1..(k - 1) :
              FieldSame(a[ColPos(df, SortKeys[j])], b[ColPos(df, SortKeys[j])])
C8_StableSort ==
    pc = "done" =>
        /\ out.columns = Concat(frames).columns
        /\ Len(out.data) = Len(Concat(frames).data)
        /\ \A r \in 1..(Len(out.data) - 1) : ~RowBefore(out, out.data[r + 1], out.data[r])
        /\ \A r \in Rows(out) :
              SelectSeq(out.data, LAMBDA x : SameSortKey(out, x, out.data[r]))
              = SelectSeq(Concat(frames).data, LAMBDA x : SameSortKey(out, x, out.data[r]))
\* A completed run with two different rows of the same sort key.
C8_Witness ==
    /\ pc = "done"
    /\ \E r, q \in Rows(out) :
          r # q /\ SameSortKey(out, out.data[r], out.data[q]) /\ out.data[r] # out.data[q]

\* C9: a letter that fails ends the run at that letter, reported with its
\* cause: no later letter is fetched and nothing is written.  Output is
\* written only once every configured letter was processed, one at a time in
\* the configured order.
C9_AbortOrAll ==
    /\ attempts = SubSeq(letters, 1, Len(attempts))
    /\ Len(frames) <= Len(attempts) /\ Len(attempts) <= Len(frames) + 1
    /\ \A k \in 1..Len(frames) :
          \A r \in Rows(frames[k]) :
              Field(frames[k], r, "Letter") = Str(LowerStr(letters[k]))
    /\ Len(attempts) > Len(frames) =>
          /\ pc = "raised"
          /\ stderr = <<[letter |-> letters[Len(attempts)], error |-> stderr[1].error]>>
          /\ stderr[1].error # ""
          /\ csv = <<>> /\ xlsx = <<>>
    /\ pc = "raised" => csv = <<>> /\ xlsx = <<>> /\ ~ENABLED Next
    /\ (csv # <<>> \/ xlsx # <<>>) =>
          /\ pc = "done"
          /\ attempts = letters
          /\ Len(frames) = Len(letters)
          /\ \A k \in 1..Len(stderr) : stderr[k].letter = ""
\* The first of two letters failed: the run ended there.
C9_Witness ==
    /\ pc = "raised"
    /\ Len(letters) = 2
    /\ attempts = <<letters[1]>>
    /\ Len(stderr) = 1

\* C10: when the generic parse finds no table and no <table> element has
\* both "Name" and "Team" among its header texts, extract_table fails with
\* the no-table error and returns no table; the fallback contributes only
\* when the generic parse found nothing, and then only elements whose header
\* texts hold both "Name" and "Team".
HasBoth(el) == "Name" \in Range(el.headers) /\ "Team" \in Range(el.headers)
C10_NoTableFound ==
    phase # "input" =>
        /\ (Len(page.tables) = 0 /\ \A k \in 1..Len(page.elements) : ~HasBoth(page.elements[k]))
              => (ex.err = NoTables /\ ex.df = EmptyDf)
        /\ Len(page.tables) > 0 => ex.tables = page.tables
        /\ Len(page.tables) = 0 =>
              \A k \in 1..Len(ex.tables) :
                  \E j \in 1..Len(page.elements) :
                      HasBoth(page.elements[j]) /\ page.elements[j].parsed = <<ex.tables[k]>>
\* No table from the generic parse, and an element that parses but has only
\* one of the two header texts.
C10_Witness ==
    /\ phase = "extracted"
    /\ Len(page.tables) = 0
    /\ \E k \in 1..Len(page.elements) :
          Len(page.elements[k].headers) > 0 /\ Len(page.elements[k].parsed) > 0
    /\ ex.err = NoTables
====
